---------------------------- MODULE Spec2Model ----------------------------
(***************************************************************************)
(* The posts demo application: a paginated list of posts (PostsList), a    *)
(* create/delete form (CreatePostForm), two zustand stores persisted to    *)
(* localStorage (form-store, pagination-store) and the TanStack Query      *)
(* client that caches the list pages and runs the mutations.               *)
(*                                                                         *)
(* Strings are sequences of one-character strings.  A JavaScript number is *)
(* a tuple: <<"number", t>> is the number t/10 (tenths, so that 2.5 can be *)
(* typed into the number input), <<"NaN">> is NaN and <<"null">> is null.  *)
(* An optional value is a sequence of length 0 (absent) or 1.              *)
(***************************************************************************)
EXTENDS Integers, Sequences, FiniteSets, TLC

(***************************************************************************)
(* Program constants                                                       *)
(***************************************************************************)
TOTAL_POSTS == 100

POSTS_PER_PAGE == 5

\* The page count taken again after one post was created.
TotalPagesRecounted ==
    (TOTAL_POSTS + 1 + POSTS_PER_PAGE - 1) \div POSTS_PER_PAGE

TOTAL_PAGES == (TOTAL_POSTS + POSTS_PER_PAGE - 1) \div POSTS_PER_PAGE

TitleMinLength == 3

BodyMinLength == 10

UserIdMin == 1

UserIdMax == 10

\* QueryClient default: a failing query function is retried 3 times
\* (main.tsx sets only staleTime, so the default stays in force).
DefaultRetry == 3

(***************************************************************************)
(* Bounds of the exploration                                               *)
(***************************************************************************)
\* How far from the first and from the last page the user walks.
MaxDrift == 1

\* Abandoned (silently cancelled, never aborted) list requests per page.
MaxOrphans == 1

(***************************************************************************)
(* Strings                                                                 *)
(***************************************************************************)
Rep(c, n) == [i \in 1..n |-> c]

IsSpace(c) == c = " "

RECURSIVE TrimStart(_)
TrimStart(s) ==
    IF s = <<>> THEN <<>>
    ELSE IF IsSpace(Head(s)) THEN TrimStart(Tail(s)) ELSE s

RECURSIVE TrimEnd(_)
TrimEnd(s) ==
    IF s = <<>> THEN <<>>
    ELSE IF IsSpace(s[Len(s)]) THEN TrimEnd(SubSeq(s, 1, Len(s) - 1)) ELSE s

\* String.prototype.trim
Trim(s) == TrimEnd(TrimStart(s))

(***************************************************************************)
(* JavaScript numbers                                                      *)
(***************************************************************************)
Num(n) == <<"number", 10 * n>>

Tenths(t) == <<"number", t>>

NaN == <<"NaN">>

Null == <<"null">>

IsNumber(v) == Len(v) = 2

\* Number.isInteger(Number(value)); Number(null) is 0, Number(NaN) is NaN.
IsInteger(v) ==
    IF v = Null THEN TRUE
    ELSE IF v = NaN THEN FALSE
    ELSE v[2] % 10 = 0

\* The text of an <input type="number"> as typed; the texts are given by the
\* number of tenths they denote, and the empty text by the empty sequence.
RawNumber(t) == <<t>>

RawEmpty == <<>>

\* react-hook-form's valueAsNumber: '' becomes NaN, otherwise +value.
ValueAsNumber(raw) == IF raw = RawEmpty THEN NaN ELSE Tenths(raw[1])

\* parseInt(text, 10): NaN for the empty text, otherwise the integer part
\* (truncated towards zero).
ParseInt(raw) ==
    IF raw = RawEmpty THEN NaN
    ELSE IF raw[1] >= 0 THEN Num(raw[1] \div 10)
    ELSE Num(-((-raw[1]) \div 10))

\* JSON.stringify followed by JSON.parse of a number: NaN is written as null.
JsonNumber(v) == IF v = NaN THEN Null ELSE v

(***************************************************************************)
(* The persisted stores (zustand + persist)                                *)
(***************************************************************************)
\* form-store: the initial formData, also what clearForm writes.
DefaultFormData == [title |-> <<>>, body |-> <<>>, userId |-> Num(1)]

\* pagination-store: the initial currentPage, also what resetPage writes.
DefaultPage == 1

setTitle(fd, title) == [fd EXCEPT !.title = title]

\* A setBody that does not spread the draft it finds.
setBodyAlone(fd, body) == [DefaultFormData EXCEPT !.body = body]

setBody(fd, body) == [fd EXCEPT !.body = body]

setUserId(fd, userId) == [fd EXCEPT !.userId = userId]

setFormData(fd, data) == data

\* A clearForm that empties the two texts and keeps the user id.
clearFormKeepsUserId(fd) == [fd EXCEPT !.title = <<>>, !.body = <<>>]

\* A clearForm that empties the title and keeps the rest.
clearFormTitleOnly(fd) == [fd EXCEPT !.title = <<>>]

clearForm(fd) == [title |-> <<>>, body |-> <<>>, userId |-> Num(1)]

setCurrentPage(p, page) == page

resetPage(p) == 1

\* persist's setItem: JSON.stringify({state, version}) under the store's key.
\* Strings and integers survive JSON unchanged; NaN does not.
SerializeForm(fd) ==
    [state |-> [formData |-> [title  |-> fd.title,
                              body   |-> fd.body,
                              userId |-> JsonNumber(fd.userId)]],
     version |-> 0]

SerializePage(p) == [state |-> [currentPage |-> p], version |-> 0]

\* persist's hydration at store creation: nothing stored gives the initial
\* state, otherwise the stored state is merged over it.
HydrateForm(stored) ==
    IF stored = <<>> THEN DefaultFormData ELSE stored[1].state.formData

HydratePage(stored) ==
    IF stored = <<>> THEN DefaultPage ELSE stored[1].state.currentPage


(***************************************************************************)
(* State                                                                   *)
(***************************************************************************)
VARIABLES
    currentPage,        \* pagination-store: currentPage
    formData,           \* form-store: formData
    storage,            \* localStorage: [form, page], each absent or stored
    formValues,         \* CreatePostForm: the react-hook-form field values
    errors,             \* CreatePostForm: formState.errors (field names)
    deletePostId,       \* CreatePostForm: useState deletePostId (input text)
    editingPostId,      \* PostsList: useState editingPostId (absent = null)
    editFormData,       \* PostsList: useState editFormData
    mutation,           \* CreatePostForm: the create mutation
    formDeleteMutation, \* CreatePostForm: deleteMutation
    updateMutation,     \* PostsList: updateMutation
    listDeleteMutation, \* PostsList: deleteMutation
    cache,              \* QueryClient: page |-> the query ['posts', page]
    orphans,            \* page |-> list requests still on the wire whose
                        \* fetch was cancelled (fetchPosts takes no signal)
    toast,              \* sonner: the latest notification ("" = none yet)
    response            \* api: the status of the HTTP response received by
                        \* the last remote operation whose outcome was
                        \* delivered (absent = none yet)

vars == <<currentPage, formData, storage, formValues, errors, deletePostId,
          editingPostId, editFormData, mutation, formDeleteMutation,
          updateMutation, listDeleteMutation, cache, orphans, toast,
          response>>

storeVars == <<currentPage, formData, storage>>

formVars == <<formValues, errors, deletePostId>>

editVars == <<editingPostId, editFormData>>

mutationVars == <<mutation, formDeleteMutation, updateMutation,
                  listDeleteMutation, toast>>

cacheVars == <<cache, orphans>>

Pages == 1..TOTAL_PAGES

\* The pages within the walking distance.
Walked(p) == p <= 1 + MaxDrift \/ p >= TOTAL_PAGES - MaxDrift

(***************************************************************************)
(* The cached query layer: one query per key ['posts', page]               *)
(*                                                                         *)
(* status / fetchStatus / isInvalidated are the query's state; hasData     *)
(* says data is defined and data holds the posts of the stored response;   *)
(* expired says staleTime has passed since the data                        *)
(* arrived; failureCount counts the failed attempts of the running fetch.  *)
(* A fetching query has one request on the wire (the delay before a retry  *)
(* is not modelled: the next attempt leaves when the failed one returns).  *)
(* reqOld is history: the request on the wire was issued before an         *)
(* invalidation that has happened since.                                   *)
(***************************************************************************)
NewQuery ==
    [status |-> "pending", fetchStatus |-> "idle", hasData |-> FALSE,
     data |-> {},
     isInvalidated |-> FALSE, expired |-> FALSE, failureCount |-> 0,
     reqOld |-> FALSE]

\* Staleness with the library's default staleTime of 0: always stale.
IsStaleAtOnce(q) == TRUE

\* isStaleByTime(staleTime): no data, invalidated, or older than staleTime.
IsStale(q) == ~q.hasData \/ q.isInvalidated \/ q.expired

\* The 'fetch' dispatch: the query function (fetchPosts) is called.
StartFetch(q) ==
    [q EXCEPT !.fetchStatus = "fetching",
              !.status = IF q.hasData THEN q.status ELSE "pending",
              !.failureCount = 0,
              !.reqOld = FALSE]

\* Query.fetch: a running fetch is shared, unless the query holds data and
\* the caller asked for cancelRefetch: then the running fetch is cancelled
\* silently and a new one is started.
QueryFetch(q, cancelRefetch) ==
    IF q.fetchStatus = "fetching" /\ ~(q.hasData /\ cancelRefetch)
    THEN q
    ELSE StartFetch(q)

\* The request a cancelled fetch leaves on the wire: fetchPosts does not
\* pass the abort signal to fetch(), so the request is not aborted.
Abandoned(q, cancelRefetch) ==
    IF q.fetchStatus = "fetching" /\ q.hasData /\ cancelRefetch
    THEN 1 ELSE 0

\* useQuery({queryKey: ['posts', page]}) on mount or when page changes: the
\* query is built if missing, and fetched if it is stale.
ObserveQuery(c, page) ==
    IF page \notin DOMAIN c
    THEN [k \in DOMAIN c \cup {page} |->
            IF k = page THEN StartFetch(NewQuery) ELSE c[k]]
    ELSE IF IsStale(c[page])
         THEN [c EXCEPT ![page] = QueryFetch(c[page], FALSE)]
         ELSE c

\* query.invalidate() on one query.
MarkInvalidated(q) ==
    [q EXCEPT !.isInvalidated = TRUE,
              !.reqOld = q.fetchStatus = "fetching"]

\* invalidateQueries({queryKey: ['posts', page]}): only the query of the page
\* on screen is invalidated and refetched.
InvalidateActiveOnly(c, active) ==
    [k \in DOMAIN c |->
        IF k = active
        THEN QueryFetch(MarkInvalidated(c[k]), TRUE)
        ELSE c[k]]

\* invalidateQueries with refetchType 'none': the queries are marked and the
\* one on screen is left as it is.
InvalidateWithoutRefetch(c, active) ==
    [k \in DOMAIN c |-> MarkInvalidated(c[k])]

\* queryClient.invalidateQueries({queryKey: ['posts']}): every query whose
\* key starts with 'posts' is invalidated, and the active ones (the page on
\* screen) are refetched with cancelRefetch.
InvalidateQueries(c, active) ==
    [k \in DOMAIN c |->
        IF k = active
        THEN QueryFetch(MarkInvalidated(c[k]), TRUE)
        ELSE MarkInvalidated(c[k])]

InvalidateOrphans(c, o, active) ==
    IF active \in DOMAIN c
    THEN [o EXCEPT ![active] = o[active] + Abandoned(c[active], TRUE)]
    ELSE o

\* The bound on abandoned requests allows this invalidation.
CanInvalidate(c, o, active) ==
    active \in DOMAIN c =>
        o[active] + Abandoned(c[active], TRUE) <= MaxOrphans

\* "Page {page} of {TOTAL_PAGES}" between the pagination buttons.
PageIndicator(page) == [page |-> page, of |-> TOTAL_PAGES]

\* What PostsList reads from useQuery.
isLoading(q) == q.status = "pending" /\ q.fetchStatus = "fetching"

isError(q) == q.status = "error"

\* PostsList renders the list and the pagination controls only past its two
\* early returns.
ListShown ==
    /\ currentPage \in DOMAIN cache
    /\ ~isLoading(cache[currentPage])
    /\ ~isError(cache[currentPage])

\* List requests on the wire for a page.
InFlight(c, o, page) ==
    o[page] + (IF page \in DOMAIN c /\ c[page].fetchStatus = "fetching"
               THEN 1 ELSE 0)


\* fetchPosts with the start taken as page * limit.
fetchPostsFromPage(page, limit) == [start |-> page * limit, limit |-> limit]

\* fetchPosts(page, limit): the GET it sends, /posts?_start=..&_limit=..
fetchPosts(page, limit) == [start |-> (page - 1) * limit, limit |-> limit]

\* The queryFn of the query ['posts', page].
queryFn(page) == fetchPosts(page, POSTS_PER_PAGE)

(***************************************************************************)
(* api: what each remote operation does with the response it receives.     *)
(* A response is modelled by its status; the operation throws when the     *)
(* status is not a success status and returns the decoded body otherwise   *)
(* (deletePost returns nothing).                                           *)
(***************************************************************************)
\* The statuses the server answers with.
Statuses == {200, 500}

\* response.ok
ok(status) == status >= 200 /\ status <= 299

\* throw new Error(message): no value is returned.
Thrown(message) == [threw |-> TRUE, message |-> message]

\* return value
Returned(value) == [threw |-> FALSE, value |-> value]

\* fetchPosts, from the response on.
fetchPostsSettles(status) ==
    IF ~ok(status) THEN Thrown("Failed to fetch posts")
                   ELSE Returned("response.json()")

\* createPost that does not look at response.ok.
createPostUnchecked(status) == Returned("response.json()")

\* createPost, from the response on.
createPost(status) ==
    IF ~ok(status) THEN Thrown("Failed to create post")
                   ELSE Returned("response.json()")

\* updatePost, from the response on.
updatePost(status) ==
    IF ~ok(status) THEN Thrown("Failed to update post")
                   ELSE Returned("response.json()")

\* deletePost, from the response on.
deletePost(status) ==
    IF ~ok(status) THEN Thrown("Failed to delete post")
                   ELSE Returned("undefined")

(***************************************************************************)
(* CreatePostForm: the validation rules given to register()                *)
(***************************************************************************)
\* title: required and minLength 3, without the validate function.
TitleErrorUntrimmed(v) ==
    \/ v = <<>>
    \/ Len(v) < TitleMinLength

\* title: required, minLength 3, validate: value.trim().length >= 3
TitleError(v) ==
    \/ v = <<>>
    \/ Len(v) < TitleMinLength
    \/ Len(Trim(v)) < TitleMinLength

\* body: required, minLength 10, validate: value.trim().length >= 10
BodyError(v) ==
    \/ v = <<>>
    \/ Len(v) < BodyMinLength
    \/ Len(Trim(v)) < BodyMinLength

\* userId: required (an empty number input), min 1, max 10, validate:
\* Number.isInteger(Number(value))
UserIdError(v) ==
    \/ ~IsNumber(v)
    \/ v[2] < 10 * UserIdMin
    \/ v[2] > 10 * UserIdMax
    \/ ~IsInteger(v)

\* handleSubmit's validation of all registered fields.
InvalidFields(values) ==
    {f \in {"title"} : TitleError(values.title)}
        \cup {f \in {"body"} : BodyError(values.body)}
        \cup {f \in {"userId"} : UserIdError(values.userId)}

\* mode 'onChange': the changed field is validated again.
Revalidate(errs, field, bad) ==
    IF bad THEN errs \cup {field} ELSE errs \ {field}

(***************************************************************************)
(* Mutations: absent when not pending, else the request on the wire        *)
(***************************************************************************)
isPending(m) == m # <<>>

(***************************************************************************)
(* PostsList: the posts on screen                                          *)
(***************************************************************************)
\* The list request for page p starts at offset (p - 1) * limit; the model
\* follows the first and the last post of a page.
PostsOnPage(p) == {(p - 1) * POSTS_PER_PAGE + 1, p * POSTS_PER_PAGE}

ShownPosts == IF ListShown THEN cache[currentPage].data ELSE {}

\* What the server returns for a post (handleEdit copies it).
ServerPost(id) ==
    [title |-> <<"q", "u", "i">>, body |-> <<"e", "s", "t">>, userId |-> Num(1)]

DefaultEditFormData == [title |-> <<>>, body |-> <<>>, userId |-> Num(1)]

\* The edit form of the post being edited is on screen.
EditFormShown == editingPostId # <<>> /\ editingPostId[1] \in ShownPosts

\* parseInt(e.target.value, 10) || 1
ParseIntOr1(raw) ==
    IF ParseInt(raw) = NaN \/ ParseInt(raw) = Num(0) THEN Num(1)
    ELSE ParseInt(raw)

(***************************************************************************)
(* Page load                                                               *)
(***************************************************************************)
NoOrphans == [p \in Pages |-> 0]

\* The form's three effects run on mount: setTitle, setBody, setUserId with
\* the watched (default) values, each of which persists the store.
MountedFormData(stored) ==
    setUserId(setBody(setTitle(HydrateForm(stored),
                               HydrateForm(stored).title),
                      HydrateForm(stored).body),
              HydrateForm(stored).userId)

\* The state of the application once it has mounted over what localStorage
\* holds: both stores hydrate, the form takes the stored draft as its default
\* values, and the list observes the stored page.
Loaded(st) ==
    /\ currentPage = HydratePage(st.page)
    /\ formData = MountedFormData(st.form)
    /\ storage = [st EXCEPT !.form = <<SerializeForm(MountedFormData(st.form))>>]
    /\ formValues = HydrateForm(st.form)
    /\ errors = {}
    /\ deletePostId = RawEmpty
    /\ editingPostId = <<>>
    /\ editFormData = DefaultEditFormData
    /\ mutation = <<>>
    /\ formDeleteMutation = <<>>
    /\ updateMutation = <<>>
    /\ listDeleteMutation = <<>>
    /\ cache = ObserveQuery(<<>>, HydratePage(st.page))
    /\ orphans = NoOrphans
    /\ toast = ""
    /\ response = <<>>

\* The first visit (nothing stored), or a visit that finds the last page
\* stored by an earlier one.
InitStorage ==
    {[form |-> <<>>, page |-> <<>>],
     [form |-> <<>>, page |-> <<SerializePage(TOTAL_PAGES)>>]}

Init ==
    /\ \E st \in InitStorage : Loaded(st)

\* A reload rebuilds everything from localStorage alone; requests of the old
\* page are dropped with it.
Reload ==
    /\ currentPage' = HydratePage(storage.page)
    /\ formData' = MountedFormData(storage.form)
    /\ storage' = [storage EXCEPT
                     !.form = <<SerializeForm(MountedFormData(storage.form))>>]
    /\ formValues' = HydrateForm(storage.form)
    /\ errors' = {}
    /\ deletePostId' = RawEmpty
    /\ editingPostId' = <<>>
    /\ editFormData' = DefaultEditFormData
    /\ mutation' = <<>>
    /\ formDeleteMutation' = <<>>
    /\ updateMutation' = <<>>
    /\ listDeleteMutation' = <<>>
    /\ cache' = ObserveQuery(<<>>, HydratePage(storage.page))
    /\ orphans' = NoOrphans
    /\ toast' = ""
    /\ response' = <<>>


(***************************************************************************)
(* CreatePostForm: typing into the create form                             *)
(*                                                                         *)
(* The field value changes, the field is validated again (mode onChange),  *)
(* and the effect watching the value writes it to the form store, which    *)
(* persists it.                                                            *)
(***************************************************************************)
\* A setItem of the draft that also removes the page's key.
PersistFormOverPage(fd) ==
    [storage EXCEPT !.form = <<SerializeForm(fd)>>, !.page = <<>>]

PersistForm(fd) == [storage EXCEPT !.form = <<SerializeForm(fd)>>]

PersistPage(p) == [storage EXCEPT !.page = <<SerializePage(p)>>]

TypeTitle(t) ==
    /\ t # formValues.title
    /\ formValues' = [formValues EXCEPT !.title = t]
    /\ errors' = Revalidate(errors, "title", TitleError(t))
    /\ formData' = setTitle(formData, t)
    /\ storage' = PersistForm(setTitle(formData, t))
    /\ UNCHANGED <<response, currentPage, deletePostId, editVars, mutationVars,
                   cacheVars>>

TypeBody(b) ==
    /\ b # formValues.body
    /\ formValues' = [formValues EXCEPT !.body = b]
    /\ errors' = Revalidate(errors, "body", BodyError(b))
    /\ formData' = setBody(formData, b)
    /\ storage' = PersistForm(setBody(formData, b))
    /\ UNCHANGED <<response, currentPage, deletePostId, editVars, mutationVars,
                   cacheVars>>

TypeUserId(raw) ==
    /\ ValueAsNumber(raw) # formValues.userId
    /\ formValues' = [formValues EXCEPT !.userId = ValueAsNumber(raw)]
    /\ errors' = Revalidate(errors, "userId", UserIdError(ValueAsNumber(raw)))
    /\ formData' = setUserId(formData, ValueAsNumber(raw))
    /\ storage' = PersistForm(setUserId(formData, ValueAsNumber(raw)))
    /\ UNCHANGED <<response, currentPage, deletePostId, editVars, mutationVars,
                   cacheVars>>

\* useFormStore's setFormData called with a whole draft: the store replaces
\* its formData and persists it (the form's own field values are not bound
\* to the store after mount).
StoreSetFormData(data) ==
    /\ formData' = setFormData(formData, data)
    /\ storage' = PersistForm(setFormData(formData, data))
    /\ UNCHANGED <<response, currentPage, formVars, editVars, mutationVars,
                   cacheVars>>

\* useFormStore's clearForm called on its own.
StoreClearForm ==
    /\ formData' = clearForm(formData)
    /\ storage' = PersistForm(clearForm(formData))
    /\ UNCHANGED <<response, currentPage, formVars, editVars, mutationVars,
                   cacheVars>>

\* usePaginationStore's resetPage called: the store goes to page 1 and
\* persists it, and PostsList, rendered again, observes the query of page 1.
StoreResetPage ==
    /\ currentPage' = resetPage(currentPage)
    /\ storage' = PersistPage(resetPage(currentPage))
    /\ cache' = ObserveQuery(cache, resetPage(currentPage))
    /\ UNCHANGED <<response, formData, formVars, editVars, mutationVars,
                   orphans>>

\* A submit button that stays enabled while the create is pending.
SubmitWhilePending ==
    /\ errors' = InvalidFields(formValues)
    /\ mutation' = IF InvalidFields(formValues) = {}
                   THEN <<formValues>> ELSE mutation
    /\ UNCHANGED <<response, storeVars, formValues, deletePostId, editVars,
                   formDeleteMutation, updateMutation, listDeleteMutation,
                   cacheVars,
                   toast>>

\* The submit button is disabled while the create is pending.  handleSubmit
\* validates every field and calls onSubmit, which calls mutation.mutate,
\* only when none is in error.
Submit ==
    /\ ~isPending(mutation)
    /\ errors' = InvalidFields(formValues)
    /\ mutation' = IF InvalidFields(formValues) = {}
                   THEN <<formValues>> ELSE mutation
    /\ UNCHANGED <<response, storeVars, formValues, deletePostId, editVars,
                   formDeleteMutation, updateMutation, listDeleteMutation,
                   cacheVars,
                   toast>>

\* An onSuccess that resets the form and the store only when the draft is
\* still the one that was sent.
CreateSucceedsKeepsFlightEdits ==
    /\ isPending(mutation)
    /\ CanInvalidate(cache, orphans, currentPage)
    /\ mutation' = <<>>
    /\ cache' = InvalidateQueries(cache, currentPage)
    /\ orphans' = InvalidateOrphans(cache, orphans, currentPage)
    /\ IF formValues = mutation[1]
       THEN /\ formValues' = [title |-> <<>>, body |-> <<>>, userId |-> Num(1)]
            /\ errors' = {}
            /\ formData' = clearForm(formData)
            /\ storage' = PersistForm(clearForm(formData))
       ELSE UNCHANGED <<formValues, errors, formData, storage>>
    /\ toast' = "Post created successfully!"
    /\ \E status \in Statuses :
          /\ ~createPost(status).threw
          /\ response' = <<status>>
    /\ UNCHANGED <<currentPage, deletePostId, editVars, formDeleteMutation,
                   updateMutation, listDeleteMutation>>

\* createPost resolves: mutation.onSuccess
CreateSucceeds ==
    /\ isPending(mutation)
    /\ CanInvalidate(cache, orphans, currentPage)
    /\ mutation' = <<>>
    /\ cache' = InvalidateQueries(cache, currentPage)
    /\ orphans' = InvalidateOrphans(cache, orphans, currentPage)
    /\ formValues' = [title |-> <<>>, body |-> <<>>, userId |-> Num(1)]
    /\ errors' = {}
    /\ formData' = clearForm(formData)
    /\ storage' = PersistForm(clearForm(formData))
    /\ toast' = "Post created successfully!"
    /\ \E status \in Statuses :
          /\ ~createPost(status).threw
          /\ response' = <<status>>
    /\ UNCHANGED <<currentPage, deletePostId, editVars, formDeleteMutation,
                   updateMutation, listDeleteMutation>>

\* The cache work of onSuccess done in onSettled: it runs on failure too.
CreateSettlesFailed ==
    /\ isPending(mutation)
    /\ CanInvalidate(cache, orphans, currentPage)
    /\ mutation' = <<>>
    /\ cache' = InvalidateQueries(cache, currentPage)
    /\ orphans' = InvalidateOrphans(cache, orphans, currentPage)
    /\ toast' = "Error: Failed to create post"
    /\ \E status \in Statuses :
          /\ createPost(status).threw
          /\ response' = <<status>>
    /\ UNCHANGED <<storeVars, formVars, editVars, formDeleteMutation,
                   updateMutation, listDeleteMutation>>

\* createPost throws (response not ok, or no response): mutation.onError
CreateFails ==
    /\ isPending(mutation)
    /\ mutation' = <<>>
    /\ toast' = "Error: Failed to create post"
    /\ \E status \in Statuses :
          /\ createPost(status).threw
          /\ response' = <<status>>
    /\ UNCHANGED <<storeVars, formVars, editVars, formDeleteMutation,
                   updateMutation, listDeleteMutation, cacheVars>>

(***************************************************************************)
(* CreatePostForm: delete by id                                            *)
(***************************************************************************)
TypeDeletePostId(raw) ==
    /\ raw # deletePostId
    /\ deletePostId' = raw
    /\ UNCHANGED <<response,
                   storeVars, formValues, errors, editVars, mutationVars,
                   cacheVars>>

\* The Delete button is disabled while the delete is pending or the input is
\* empty.  handleDelete rejects an id that does not parse or is below 1
\* (it only raises a notification).
FormHandleDelete ==
    /\ ~isPending(formDeleteMutation)
    /\ deletePostId # RawEmpty
    /\ formDeleteMutation' =
          IF deletePostId = RawEmpty \/ ParseInt(deletePostId) = NaN
             \/ ParseInt(deletePostId)[2] < 10
          THEN formDeleteMutation
          ELSE <<ParseInt(deletePostId)>>
    /\ toast' = IF deletePostId = RawEmpty \/ ParseInt(deletePostId) = NaN
                 \/ ParseInt(deletePostId)[2] < 10
              THEN "Please enter a valid post ID"
              ELSE toast
    /\ UNCHANGED <<response,
                   storeVars, formVars, editVars, mutation, updateMutation,
                   listDeleteMutation, cacheVars>>

\* deletePost resolves: deleteMutation.onSuccess (CreatePostForm)
FormDeleteSucceeds ==
    /\ isPending(formDeleteMutation)
    /\ CanInvalidate(cache, orphans, currentPage)
    /\ formDeleteMutation' = <<>>
    /\ cache' = InvalidateQueries(cache, currentPage)
    /\ orphans' = InvalidateOrphans(cache, orphans, currentPage)
    /\ deletePostId' = RawEmpty
    /\ toast' = "Post deleted successfully!"
    /\ \E status \in Statuses :
          /\ ~deletePost(status).threw
          /\ response' = <<status>>
    /\ UNCHANGED <<storeVars, formValues, errors, editVars, mutation,
                   updateMutation, listDeleteMutation>>

\* deletePost throws: deleteMutation.onError (CreatePostForm)
FormDeleteFails ==
    /\ isPending(formDeleteMutation)
    /\ formDeleteMutation' = <<>>
    /\ toast' = "Error: Failed to delete post"
    /\ \E status \in Statuses :
          /\ deletePost(status).threw
          /\ response' = <<status>>
    /\ UNCHANGED <<storeVars, formVars, editVars, mutation, updateMutation,
                   listDeleteMutation, cacheVars>>


(***************************************************************************)
(* PostsList: inline edit and delete                                       *)
(***************************************************************************)
\* Edit and Delete of a post in view mode are disabled while the list's
\* delete or update is pending.
handleEdit(post) ==
    /\ post \in ShownPosts
    /\ editingPostId # <<post>>
    /\ ~isPending(listDeleteMutation) /\ ~isPending(updateMutation)
    /\ editingPostId' = <<post>>
    /\ editFormData' = [title  |-> ServerPost(post).title,
                        body   |-> ServerPost(post).body,
                        userId |-> ServerPost(post).userId]
    /\ UNCHANGED <<response, storeVars, formVars, mutationVars, cacheVars>>

\* Cancel and Save are disabled while the update is pending.
handleCancelEdit ==
    /\ EditFormShown
    /\ ~isPending(updateMutation)
    /\ editingPostId' = <<>>
    /\ editFormData' = [title |-> <<>>, body |-> <<>>, userId |-> Num(1)]
    /\ UNCHANGED <<response, storeVars, formVars, mutationVars, cacheVars>>

EditTitle(t) ==
    /\ EditFormShown
    /\ t # editFormData.title
    /\ editFormData' = [editFormData EXCEPT !.title = t]
    /\ UNCHANGED <<response, storeVars, formVars, editingPostId, mutationVars,
                   cacheVars>>

EditBody(b) ==
    /\ EditFormShown
    /\ b # editFormData.body
    /\ editFormData' = [editFormData EXCEPT !.body = b]
    /\ UNCHANGED <<response, storeVars, formVars, editingPostId, mutationVars,
                   cacheVars>>

EditUserId(raw) ==
    /\ EditFormShown
    /\ ParseIntOr1(raw) # editFormData.userId
    /\ editFormData' = [editFormData EXCEPT !.userId = ParseIntOr1(raw)]
    /\ UNCHANGED <<response, storeVars, formVars, editingPostId, mutationVars,
                   cacheVars>>

\* Save that leaves edit mode and invalidates at once, before the answer.
handleSaveEditOptimistic ==
    /\ EditFormShown
    /\ ~isPending(updateMutation)
    /\ Trim(editFormData.title) # <<>> /\ Trim(editFormData.body) # <<>>
    /\ CanInvalidate(cache, orphans, currentPage)
    /\ updateMutation' = <<[postId |-> editingPostId[1], data |-> editFormData]>>
    /\ cache' = InvalidateQueries(cache, currentPage)
    /\ orphans' = InvalidateOrphans(cache, orphans, currentPage)
    /\ editingPostId' = <<>>
    /\ editFormData' = [title |-> <<>>, body |-> <<>>, userId |-> Num(1)]
    /\ UNCHANGED <<response, storeVars, formVars, mutation, formDeleteMutation,
                   listDeleteMutation, toast>>

\* Save that tests the title and the body as typed, not trimmed.
handleSaveEditUntrimmed ==
    /\ EditFormShown
    /\ ~isPending(updateMutation)
    /\ updateMutation' =
          IF editFormData.title = <<>> \/ editFormData.body = <<>>
          THEN updateMutation
          ELSE <<[postId |-> editingPostId[1], data |-> editFormData]>>
    /\ toast' = IF editFormData.title = <<>> \/ editFormData.body = <<>>
              THEN "Title and body are required"
              ELSE toast
    /\ UNCHANGED <<response, storeVars, formVars, editVars, mutation,
                   formDeleteMutation, listDeleteMutation, cacheVars>>

handleSaveEdit ==
    /\ EditFormShown
    /\ ~isPending(updateMutation)
    /\ updateMutation' =
          IF Trim(editFormData.title) = <<>> \/ Trim(editFormData.body) = <<>>
          THEN updateMutation
          ELSE <<[postId |-> editingPostId[1], data |-> editFormData]>>
    /\ toast' = IF Trim(editFormData.title) = <<>> \/ Trim(editFormData.body) = <<>>
              THEN "Title and body are required"
              ELSE toast
    /\ UNCHANGED <<response, storeVars, formVars, editVars, mutation,
                   formDeleteMutation, listDeleteMutation, cacheVars>>

\* updatePost resolves: updateMutation.onSuccess
UpdateSucceeds ==
    /\ isPending(updateMutation)
    /\ CanInvalidate(cache, orphans, currentPage)
    /\ updateMutation' = <<>>
    /\ cache' = InvalidateQueries(cache, currentPage)
    /\ orphans' = InvalidateOrphans(cache, orphans, currentPage)
    /\ editingPostId' = <<>>
    /\ editFormData' = [title |-> <<>>, body |-> <<>>, userId |-> Num(1)]
    /\ toast' = "Post updated successfully!"
    /\ \E status \in Statuses :
          /\ ~updatePost(status).threw
          /\ response' = <<status>>
    /\ UNCHANGED <<storeVars, formVars, mutation, formDeleteMutation,
                   listDeleteMutation>>

\* Leaving edit mode in onSettled: it runs on failure too.
UpdateSettlesFailed ==
    /\ isPending(updateMutation)
    /\ updateMutation' = <<>>
    /\ editingPostId' = <<>>
    /\ editFormData' = [title |-> <<>>, body |-> <<>>, userId |-> Num(1)]
    /\ toast' = "Error: Failed to update post"
    /\ \E status \in Statuses :
          /\ updatePost(status).threw
          /\ response' = <<status>>
    /\ UNCHANGED <<storeVars, formVars, mutation, formDeleteMutation,
                   listDeleteMutation, cacheVars>>

\* updatePost throws: updateMutation.onError
UpdateFails ==
    /\ isPending(updateMutation)
    /\ updateMutation' = <<>>
    /\ toast' = "Error: Failed to update post"
    /\ \E status \in Statuses :
          /\ updatePost(status).threw
          /\ response' = <<status>>
    /\ UNCHANGED <<storeVars, formVars, editVars, mutation,
                   formDeleteMutation, listDeleteMutation, cacheVars>>

ListHandleDelete(post) ==
    /\ post \in ShownPosts
    /\ editingPostId # <<post>>
    /\ ~isPending(listDeleteMutation) /\ ~isPending(updateMutation)
    /\ listDeleteMutation' = <<post>>
    /\ UNCHANGED <<response, storeVars, formVars, editVars, mutation,
                   formDeleteMutation, updateMutation, cacheVars,
                   toast>>

\* deletePost resolves: deleteMutation.onSuccess (PostsList)
ListDeleteSucceeds ==
    /\ isPending(listDeleteMutation)
    /\ CanInvalidate(cache, orphans, currentPage)
    /\ listDeleteMutation' = <<>>
    /\ cache' = InvalidateQueries(cache, currentPage)
    /\ orphans' = InvalidateOrphans(cache, orphans, currentPage)
    /\ toast' = "Post deleted successfully!"
    /\ \E status \in Statuses :
          /\ ~deletePost(status).threw
          /\ response' = <<status>>
    /\ UNCHANGED <<storeVars, formVars, editVars, mutation,
                   formDeleteMutation, updateMutation>>

\* deletePost throws: deleteMutation.onError (PostsList)
ListDeleteFails ==
    /\ isPending(listDeleteMutation)
    /\ listDeleteMutation' = <<>>
    /\ toast' = "Error: Failed to delete post"
    /\ \E status \in Statuses :
          /\ deletePost(status).threw
          /\ response' = <<status>>
    /\ UNCHANGED <<storeVars, formVars, editVars, mutation,
                   formDeleteMutation, updateMutation, cacheVars>>

(***************************************************************************)
(* PostsList: pagination                                                   *)
(*                                                                         *)
(* setCurrentPage persists the page; the render that follows points the    *)
(* query observer at the new key.                                          *)
(***************************************************************************)
\* Previous without its bound: neither the button nor the handler looks at
\* the page.
goToPreviousPageUnclamped ==
    /\ ListShown
    /\ Walked(currentPage - 1)
    /\ currentPage' = setCurrentPage(currentPage, currentPage - 1)
    /\ storage' = PersistPage(setCurrentPage(currentPage, currentPage - 1))
    /\ cache' = ObserveQuery(cache, currentPage - 1)
    /\ UNCHANGED <<response,
                   formData, formVars, editVars, mutationVars, orphans>>

goToPreviousPage ==
    /\ ListShown
    /\ currentPage # 1
    /\ Walked(currentPage - 1)
    /\ IF currentPage > 1
       THEN /\ currentPage' = setCurrentPage(currentPage, currentPage - 1)
            /\ storage' = PersistPage(setCurrentPage(currentPage, currentPage - 1))
            /\ cache' = ObserveQuery(cache, currentPage - 1)
       ELSE UNCHANGED <<currentPage, storage, cache>>
    /\ UNCHANGED <<response,
                   formData, formVars, editVars, mutationVars, orphans>>

\* Next with its bound off by one: page <= TOTAL_PAGES, in the handler and
\* in the button's disabled flag.
goToNextPageOffByOne ==
    /\ ListShown
    /\ currentPage # TOTAL_PAGES + 1
    /\ Walked(currentPage + 1)
    /\ IF currentPage <= TOTAL_PAGES
       THEN /\ currentPage' = setCurrentPage(currentPage, currentPage + 1)
            /\ storage' = PersistPage(setCurrentPage(currentPage, currentPage + 1))
            /\ cache' = ObserveQuery(cache, currentPage + 1)
       ELSE UNCHANGED <<currentPage, storage, cache>>
    /\ UNCHANGED <<response,
                   formData, formVars, editVars, mutationVars, orphans>>

goToNextPage ==
    /\ ListShown
    /\ currentPage # TOTAL_PAGES
    /\ Walked(currentPage + 1)
    /\ IF currentPage < TOTAL_PAGES
       THEN /\ currentPage' = setCurrentPage(currentPage, currentPage + 1)
            /\ storage' = PersistPage(setCurrentPage(currentPage, currentPage + 1))
            /\ cache' = ObserveQuery(cache, currentPage + 1)
       ELSE UNCHANGED <<currentPage, storage, cache>>
    /\ UNCHANGED <<response,
                   formData, formVars, editVars, mutationVars, orphans>>

(***************************************************************************)
(* The list requests and the query client's timers                         *)
(***************************************************************************)
\* fetchPosts resolves for the running fetch of page k and its posts are
\* stored under the page the user is looking at.
FetchSucceedsUnderShownPage(k) ==
    /\ k \in DOMAIN cache
    /\ cache[k].fetchStatus = "fetching"
    /\ currentPage \in DOMAIN cache
    /\ cache' = [cache EXCEPT ![k] = [@ EXCEPT !.fetchStatus = "idle"],
                              ![currentPage] =
                   [status |-> "success", fetchStatus |-> "idle",
                    hasData |-> TRUE, data |-> PostsOnPage(k),
                    isInvalidated |-> FALSE,
                    expired |-> FALSE, failureCount |-> 0,
                    reqOld |-> FALSE]]
    /\ \E status \in Statuses :
          /\ ~fetchPostsSettles(status).threw
          /\ response' = <<status>>
    /\ UNCHANGED <<storeVars, formVars, editVars, mutationVars, orphans>>

\* fetchPosts resolves for the running fetch of page k: the data is stored,
\* fresh, under ['posts', k].
FetchSucceeds(k) ==
    /\ k \in DOMAIN cache
    /\ cache[k].fetchStatus = "fetching"
    /\ cache' = [cache EXCEPT ![k] =
                   [status |-> "success", fetchStatus |-> "idle",
                    hasData |-> TRUE, data |-> PostsOnPage(k),
                    isInvalidated |-> FALSE,
                    expired |-> FALSE, failureCount |-> 0,
                    reqOld |-> FALSE]]
    /\ \E status \in Statuses :
          /\ ~fetchPostsSettles(status).threw
          /\ response' = <<status>>
    /\ UNCHANGED <<storeVars, formVars, editVars, mutationVars, orphans>>

\* fetchPosts throws and the retryer calls it again, without a limit.
FetchFailsRetriesForever(k) ==
    /\ k \in DOMAIN cache
    /\ cache[k].fetchStatus = "fetching"
    /\ cache' = [cache EXCEPT ![k] = [cache[k] EXCEPT !.reqOld = FALSE]]
    /\ \E status \in Statuses :
          /\ fetchPostsSettles(status).threw
          /\ response' = <<status>>
    /\ UNCHANGED <<storeVars, formVars, editVars, mutationVars, orphans>>

\* fetchPosts throws for the running fetch of page k.  The retryer calls it
\* again while fewer than the default number of retries have failed and the
\* query is still observed; otherwise the query ends in error (keeping the
\* data it had).
FetchFails(k) ==
    /\ k \in DOMAIN cache
    /\ cache[k].fetchStatus = "fetching"
    /\ cache' = [cache EXCEPT ![k] =
                   IF cache[k].failureCount < DefaultRetry /\ k = currentPage
                   THEN [cache[k] EXCEPT !.failureCount = @ + 1,
                                         !.reqOld = FALSE]
                   ELSE [cache[k] EXCEPT !.status = "error",
                                         !.fetchStatus = "idle",
                                         !.failureCount = 0,
                                         !.reqOld = FALSE]]
    /\ \E status \in Statuses :
          /\ fetchPostsSettles(status).threw
          /\ response' = <<status>>
    /\ UNCHANGED <<storeVars, formVars, editVars, mutationVars, orphans>>

\* The response to a request whose fetch was cancelled arrives: whatever
\* fetchPosts makes of it is dropped.
OrphanSettles(k) ==
    /\ orphans[k] > 0
    /\ orphans' = [orphans EXCEPT ![k] = @ - 1]
    /\ UNCHANGED <<response, storeVars, formVars, editVars, mutationVars,
                   cache>>

\* The query is removed when its staleTime passes.
ExpireEvicts(k) ==
    /\ k \in DOMAIN cache
    /\ cache[k].hasData
    /\ ~cache[k].expired
    /\ cache' = [j \in DOMAIN cache \ {k} |-> cache[j]]
    /\ UNCHANGED <<response,
                   storeVars, formVars, editVars, mutationVars, orphans>>

\* staleTime (5 minutes) passes for the data of page k.
Expire(k) ==
    /\ k \in DOMAIN cache
    /\ cache[k].hasData
    /\ ~cache[k].expired
    /\ cache' = [cache EXCEPT ![k].expired = TRUE]
    /\ UNCHANGED <<response,
                   storeVars, formVars, editVars, mutationVars, orphans>>

\* gcTime (the default, 5 minutes) passes for a query nobody observes and
\* that is not fetching: it is removed.  The query lost its observer no
\* earlier than its data arrived, so the data is past staleTime by then.
CollectGarbage(k) ==
    /\ k \in DOMAIN cache
    /\ k # currentPage
    /\ cache[k].fetchStatus = "idle"
    /\ cache[k].hasData => cache[k].expired
    /\ cache' = [j \in DOMAIN cache \ {k} |-> cache[j]]
    /\ UNCHANGED <<response,
                   storeVars, formVars, editVars, mutationVars, orphans>>

\* The window regains focus (refetchOnWindowFocus, the default): the
\* observed query is fetched if stale and not already fetching.
WindowFocus ==
    /\ currentPage \in DOMAIN cache
    /\ IsStale(cache[currentPage])
    /\ cache[currentPage].fetchStatus = "idle"
    /\ cache' = [cache EXCEPT ![currentPage] = QueryFetch(@, FALSE)]
    /\ UNCHANGED <<response,
                   storeVars, formVars, editVars, mutationVars, orphans>>

(***************************************************************************)
(* Inputs                                                                  *)
(***************************************************************************)
\* Texts typed into the title: empty, two characters, three characters of
\* which one is not a space, three characters, and the same between spaces.
TitleTexts ==
    {<<>>, <<"a", "b">>, <<" ", "a", " ">>, <<"a", "b", "c">>,
     <<" ", "a", "b", "c", " ">>}

\* Texts typed into the body: empty, one character short, enough characters
\* of which two are spaces around the rest, and just enough.
BodyTexts ==
    {<<>>, Rep("x", BodyMinLength - 1),
     <<" ">> \o Rep("x", BodyMinLength - 2) \o <<" ">>,
     Rep("x", BodyMinLength)}

\* Texts typed into the create form's user id: empty, 0, 1, 2.5, 10 and 11
\* (in tenths).
UserIdTexts ==
    {RawEmpty, RawNumber(0), RawNumber(10), RawNumber(25), RawNumber(100),
     RawNumber(110)}

\* Texts typed into the form's post id: empty, 0 and 1.
DeleteIdTexts == {RawEmpty, RawNumber(0), RawNumber(10)}

\* Drafts handed to setFormData: the default one and one with every field
\* set.
StoreDrafts ==
    {[title |-> <<>>, body |-> <<>>, userId |-> Num(1)],
     [title |-> <<"a", "b", "c">>, body |-> <<"x">>, userId |-> Num(2)]}

\* Texts typed into the inline edit form.
EditTexts == {<<>>, <<"q", "u", "i">>}

EditUserIdTexts == {RawNumber(10), RawNumber(110)}

\* Texts typed over the title and the body of a post in edit mode: nothing,
\* one space, and a word.
EditBlanks == {<<>>, <<" ">>, <<"q", "u", "i">>}

(***************************************************************************)
(* The application                                                         *)
(***************************************************************************)
Next ==
    \/ \E t \in TitleTexts : TypeTitle(t)
    \/ \E b \in BodyTexts : TypeBody(b)
    \/ \E raw \in UserIdTexts : TypeUserId(raw)
    \/ Submit
    \/ CreateSucceeds
    \/ CreateFails
    \/ \E data \in StoreDrafts : StoreSetFormData(data)
    \/ StoreClearForm
    \/ StoreResetPage
    \/ \E raw \in DeleteIdTexts : TypeDeletePostId(raw)
    \/ FormHandleDelete
    \/ FormDeleteSucceeds
    \/ FormDeleteFails
    \/ \E post \in ShownPosts : handleEdit(post)
    \/ handleCancelEdit
    \/ \E t \in EditTexts : EditTitle(t)
    \/ \E b \in EditTexts : EditBody(b)
    \/ \E raw \in EditUserIdTexts : EditUserId(raw)
    \/ handleSaveEdit
    \/ UpdateSucceeds
    \/ UpdateFails
    \/ \E post \in ShownPosts : ListHandleDelete(post)
    \/ ListDeleteSucceeds
    \/ ListDeleteFails
    \/ goToPreviousPage
    \/ goToNextPage
    \/ \E k \in Pages : FetchSucceeds(k)
    \/ \E k \in Pages : FetchFails(k)
    \/ \E k \in Pages : OrphanSettles(k)
    \/ \E k \in Pages : Expire(k)
    \/ \E k \in Pages : CollectGarbage(k)
    \/ WindowFocus
    \/ Reload

Spec == Init /\ [][Next]_vars

(***************************************************************************)
(* Scenarios: the same actions, grouped by who takes them, and the runs    *)
(* of the application over a chosen part of them                           *)
(***************************************************************************)
\* The first visit: localStorage holds nothing.
FirstVisit == Loaded([form |-> <<>>, page |-> <<>>])

\* What reads the list: the pagination buttons, a focus of the window, a
\* reload of the page.
Reads == goToPreviousPage \/ goToNextPage \/ WindowFocus \/ Reload

\* What the network answers to the list requests when the API is up.
Network == \E k \in Pages : FetchSucceeds(k) \/ OrphanSettles(k)

\* The query client's timers.
Timers == \E k \in Pages : Expire(k) \/ CollectGarbage(k)

\* A valid draft typed into the create form, and its submission.
ValidTitle == <<"a", "b", "c">>

ValidBody == Rep("x", BodyMinLength)

CreateFlow ==
    \/ TypeTitle(ValidTitle)
    \/ TypeBody(ValidBody)
    \/ Submit
    \/ CreateSucceeds
    \/ CreateFails

\* Delete by id from the create form's card.
FormDeleteFlow ==
    \/ \E raw \in {RawNumber(0), RawNumber(10)} : TypeDeletePostId(raw)
    \/ FormHandleDelete
    \/ FormDeleteSucceeds
    \/ FormDeleteFails

\* Delete from the list.
ListDeleteFlow ==
    \/ \E post \in ShownPosts : ListHandleDelete(post)
    \/ ListDeleteSucceeds
    \/ ListDeleteFails

\* Inline edit of a post of the list.
EditFlow ==
    \/ \E post \in ShownPosts : handleEdit(post)
    \/ handleCancelEdit
    \/ \E t \in EditTexts : EditTitle(t)
    \/ handleSaveEdit
    \/ UpdateSucceeds
    \/ UpdateFails

\* Drafts of every kind typed into the create form, and their submission.
DraftFlow ==
    \/ \E t \in TitleTexts : TypeTitle(t)
    \/ \E b \in BodyTexts : TypeBody(b)
    \/ \E raw \in UserIdTexts : TypeUserId(raw)
    \/ Submit
    \/ CreateSucceeds
    \/ CreateFails

\* Creating posts while the list is read.
SpecCreate == FirstVisit /\ [][Reads \/ Network \/ Timers \/ CreateFlow]_vars

\* Deleting posts, from the list (the first post of the page) and by id,
\* while the list is read and the API answers every request.
SpecDelete ==
    FirstVisit
        /\ [][Reads \/ Network \/ Timers
                \/ ListHandleDelete((currentPage - 1) * POSTS_PER_PAGE + 1)
                \/ ListDeleteSucceeds
                \/ TypeDeletePostId(RawNumber(10))
                \/ FormHandleDelete
                \/ FormDeleteSucceeds]_vars

\* Every mutation and both of its outcomes, over the first page.
SpecOutcomes ==
    FirstVisit
        /\ [][Reload \/ WindowFocus \/ Network \/ (\E k \in Pages : Expire(k))
                \/ CreateFlow \/ FormDeleteFlow \/ ListDeleteFlow \/ EditFlow]_vars

\* Drafts of every kind, submitted while the list loads.
SpecDraft ==
    FirstVisit
        /\ [][DraftFlow \/ Reload \/ (\E k \in Pages : FetchSucceeds(k))]_vars

\* Drafting, paging and editing, with reloads of the page in between.
SpecReload ==
    FirstVisit
        /\ [][CreateFlow
                \/ (\E raw \in {RawEmpty, RawNumber(100)} : TypeUserId(raw))
                \/ goToNextPage \/ goToPreviousPage
                \/ (\E k \in Pages : FetchSucceeds(k))
                \/ (\E post \in ShownPosts : handleEdit(post))
                \/ handleCancelEdit
                \/ Reload]_vars

\* Every remote operation and both of its outcomes, over the first page.
SpecApi ==
    FirstVisit
        /\ [][WindowFocus \/ Network \/ (\E k \in Pages : FetchFails(k))
                \/ CreateFlow \/ FormDeleteFlow \/ ListDeleteFlow
                \/ EditFlow]_vars

\* The first two pages are read and refetched while posts are deleted from
\* them; list requests succeed or fail.
NextSettle ==
    \/ goToPreviousPage
    \/ (currentPage = DefaultPage /\ goToNextPage)
    \/ WindowFocus
    \/ \E k \in Pages : FetchSucceeds(k)
    \/ \E k \in Pages : FetchFails(k)
    \/ \E k \in Pages : OrphanSettles(k)
    \/ \E post \in ShownPosts : ListHandleDelete(post)
    \/ ListDeleteSucceeds

\* The pages shown in that run.
VisitedPages == {DefaultPage, DefaultPage + 1}

\* A step in which the running list request of page k is cancelled and
\* left on the wire (a new one replaces it).
Cancelled(k) == NextSettle /\ orphans'[k] = orphans[k] + 1

\* The same run, in which the API answers every list request: the request
\* a query is waiting for does not stay unanswered for ever, unless it is
\* cancelled.
SpecSettle ==
    /\ FirstVisit
    /\ [][NextSettle]_vars
    /\ \A k \in VisitedPages :
          WF_vars(FetchSucceeds(k) \/ FetchFails(k) \/ Cancelled(k))

\* Posts are created and deleted, with success, while the list is paged
\* through from the first page or from a stored last page.
SpecCount ==
    Init
        /\ [][goToPreviousPage \/ goToNextPage \/ Network
                \/ TypeTitle(ValidTitle) \/ TypeBody(ValidBody)
                \/ Submit \/ CreateSucceeds
                \/ (\E post \in ShownPosts : ListHandleDelete(post))
                \/ ListDeleteSucceeds]_vars

\* Every action of the two stores, over the first two pages: drafting and
\* creating, the pagination buttons, setFormData, clearForm and resetPage,
\* with reloads in between.
SpecStores ==
    FirstVisit
        /\ [][(\E t \in {<<>>, ValidTitle} : TypeTitle(t))
                \/ (\E b \in {<<>>, ValidBody} : TypeBody(b))
                \/ (\E raw \in {RawEmpty, RawNumber(20)} : TypeUserId(raw))
                \/ Submit \/ CreateSucceeds
                \/ (\E data \in StoreDrafts : StoreSetFormData(data))
                \/ StoreClearForm \/ StoreResetPage
                \/ goToPreviousPage
                \/ (currentPage = DefaultPage /\ goToNextPage)
                \/ (\E k \in Pages : FetchSucceeds(k))
                \/ Reload]_vars

\* The pages next to the two ends of the list.
EndPages == {DefaultPage, DefaultPage + 1, TOTAL_PAGES - 1, TOTAL_PAGES}

\* Previous, Next and reloads at the two ends of the list, Previous on the
\* first page included, while posts are created, updated and deleted with
\* success.
SpecEnds ==
    Init
        /\ [][(currentPage - 1 \in EndPages \cup {DefaultPage - 1}
                    /\ goToPreviousPage)
                \/ (currentPage + 1 \in EndPages /\ goToNextPage)
                \/ Reload
                \/ (\E k \in Pages : FetchSucceeds(k))
                \/ TypeTitle(ValidTitle) \/ TypeBody(ValidBody)
                \/ Submit \/ CreateSucceeds
                \/ (\E post \in ShownPosts : ListHandleDelete(post))
                \/ ListDeleteSucceeds
                \/ (\E post \in ShownPosts : handleEdit(post))
                \/ handleSaveEdit \/ UpdateSucceeds]_vars

\* Posts of the first page are edited, with blank and filled titles and
\* bodies, and saved; updates succeed or fail.
SpecEdit ==
    FirstVisit
        /\ [][Network
                \/ (\E post \in ShownPosts : handleEdit(post))
                \/ handleCancelEdit
                \/ (\E t \in EditBlanks : EditTitle(t))
                \/ (\E b \in EditBlanks : EditBody(b))
                \/ handleSaveEdit \/ UpdateSucceeds \/ UpdateFails]_vars

\* Drafts are submitted, with every kind of user id, and posts of the first
\* page are edited, user id included, and saved.
SpecPayload ==
    FirstVisit
        /\ [][(\E t \in {<<>>, <<" ", "a", " ">>, ValidTitle} : TypeTitle(t))
                \/ (\E b \in {<<>>, ValidBody} : TypeBody(b))
                \/ (\E raw \in UserIdTexts : TypeUserId(raw))
                \/ Submit \/ CreateSucceeds
                \/ (\E k \in Pages : FetchSucceeds(k))
                \/ (\E post \in ShownPosts : handleEdit(post))
                \/ (\E t \in EditBlanks : EditTitle(t))
                \/ (\E raw \in EditUserIdTexts : EditUserId(raw))
                \/ handleSaveEdit \/ UpdateSucceeds]_vars

\* The user leaves a page only while a request for it is in flight: the
\* first page is refetched, after its staleTime on window focus or after a
\* create, and Next or Previous is pressed before the response arrives.
SpecKeys ==
    FirstVisit
        /\ [][(\E k \in Pages : FetchSucceeds(k))
                \/ (\E k \in Pages : FetchFails(k))
                \/ (\E k \in Pages : Expire(k))
                \/ WindowFocus
                \/ TypeTitle(ValidTitle) \/ TypeBody(ValidBody)
                \/ Submit \/ CreateSucceeds
                \/ (/\ currentPage = DefaultPage
                    /\ cache[currentPage].fetchStatus = "fetching"
                    /\ goToNextPage)
                \/ (/\ cache[currentPage].fetchStatus = "fetching"
                    /\ goToPreviousPage)]_vars

\* The draft is edited while its create is in flight: the API answers a
\* create only after the form has been changed since the submit.
SpecFlight ==
    FirstVisit
        /\ [][(\E t \in {<<>>, ValidTitle, <<"a", "b", "c", "d">>} : TypeTitle(t))
                \/ (\E b \in {<<>>, ValidBody} : TypeBody(b))
                \/ (\E raw \in {RawEmpty, RawNumber(10), RawNumber(20)} :
                        TypeUserId(raw))
                \/ Submit
                \/ (/\ isPending(mutation)
                    /\ formValues # mutation[1]
                    /\ CreateSucceeds)
                \/ (/\ isPending(mutation)
                    /\ formValues # mutation[1]
                    /\ CreateFails)
                \/ (\E k \in Pages : FetchSucceeds(k))
                \/ Reload]_vars

\* Paging through the list, from the first page or from a stored last
\* page, while list requests succeed or fail.
SpecPaging ==
    Init
        /\ [][Reads \/ Timers
                \/ (\E k \in Pages : FetchSucceeds(k))
                \/ (\E k \in Pages : FetchFails(k))]_vars

(***************************************************************************)
(* Properties                                                              *)
(***************************************************************************)
\* The query of the page on screen.
Current == cache[currentPage]

\* C1: when a create succeeds, every cached ['posts', p] query is marked
\* invalidated, and the query of the page on screen, if it held a value
\* (success), goes out on a request issued after the create (the spec's
\* "pending": fetching, the old value shown meanwhile); an invalidated value
\* of the page on screen is never served at rest, so the entry returns to
\* success only through that refetch.
C1_CreateInvalidatesAndRefetches ==
    /\ [][CreateSucceeds =>
            /\ DOMAIN cache' = DOMAIN cache
            /\ \A k \in DOMAIN cache' : cache'[k].isInvalidated
            /\ Current.status = "success" =>
                  /\ cache'[currentPage].status = "success"
                  /\ cache'[currentPage].fetchStatus = "fetching"
                  /\ ~cache'[currentPage].reqOld]_vars
    /\ [](Current.status = "success" /\ Current.isInvalidated
            => Current.fetchStatus = "fetching")

\* The create has succeeded and the page on screen, still showing its old
\* value, is being refetched on a request issued after it.
C1_Witness ==
    /\ toast = "Post created successfully!"
    /\ Current.status = "success"
    /\ Current.isInvalidated
    /\ Current.fetchStatus = "fetching"
    /\ ~Current.reqOld

\* A step in which a pending delete (from the list or by id) succeeds.
DeleteSucceeded ==
    /\ toast' = "Post deleted successfully!"
    /\ \/ isPending(listDeleteMutation) /\ ~isPending(listDeleteMutation')
       \/ isPending(formDeleteMutation) /\ ~isPending(formDeleteMutation')

C3_FreshValueIsFromLaterRequest ==
    [][\A k \in DOMAIN cache \cap DOMAIN cache' :
          cache[k].fetchStatus = "fetching" /\ cache[k].reqOld
              => ~(cache'[k].status = "success"
                     /\ cache'[k].fetchStatus = "idle"
                     /\ ~cache'[k].isInvalidated)]_vars

\* C4 (as stated): at most one list request per key is on the wire.
C4_OneRequestPerKey ==
    \A k \in Pages : InFlight(cache, orphans, k) <= 1

\* A step in which a pending create, update or delete fails.
MutationFailed ==
    \/ /\ toast' = "Error: Failed to create post"
       /\ isPending(mutation) /\ ~isPending(mutation')
    \/ /\ toast' = "Error: Failed to update post"
       /\ isPending(updateMutation) /\ ~isPending(updateMutation')
    \/ /\ toast' = "Error: Failed to delete post"
       /\ \/ isPending(listDeleteMutation) /\ ~isPending(listDeleteMutation')
          \/ isPending(formDeleteMutation) /\ ~isPending(formDeleteMutation')

\* C5: a create, update or delete that fails leaves every cached posts
\* query as it was: same queries, same value, status, invalidation mark and
\* age, and no list request is started or dropped.
C5_FailedMutationKeepsCache ==
    [][MutationFailed => cache' = cache /\ orphans' = orphans]_vars

\* A create has failed and the query on screen is still fresh.
C5_Witness ==
    /\ toast = "Error: Failed to create post"
    /\ Current.status = "success"
    /\ Current.fetchStatus = "idle"
    /\ ~IsStale(Current)

\* C6: a create, update or delete that fails leaves the draft and the page,
\* in memory and in localStorage, and the post in edit mode and its edit
\* buffer as they were.
C6_FailedMutationKeepsClientState ==
    [][MutationFailed =>
          /\ storage' = storage
          /\ formData' = formData
          /\ currentPage' = currentPage
          /\ editingPostId' = editingPostId
          /\ editFormData' = editFormData]_vars

\* An update has failed: the post is still in edit mode with its buffer, and
\* the typed draft is still stored.
C6_Witness ==
    /\ toast = "Error: Failed to update post"
    /\ editingPostId # <<>>
    /\ editFormData.title = ServerPost(editingPostId[1]).title
    /\ formData.title = ValidTitle
    /\ storage.form = <<SerializeForm(formData)>>

\* A draft as the specification wants it: trimmed title of 3 characters or
\* more, trimmed body of 10 or more, user id an integer from 1 to 10.
DraftValid(v) ==
    /\ Len(Trim(v.title)) >= TitleMinLength
    /\ Len(Trim(v.body)) >= BodyMinLength
    /\ IsNumber(v.userId)
    /\ v.userId[2] % 10 = 0
    /\ v.userId[2] >= 10 * UserIdMin
    /\ v.userId[2] <= 10 * UserIdMax

\* C7: while the draft in the form is invalid, no step sends a create
\* request; a create request on the wire always carries a valid draft.
C7_InvalidDraftSendsNothing ==
    /\ [][~DraftValid(formValues)
             => ~(~isPending(mutation) /\ isPending(mutation'))]_vars
    /\ [](isPending(mutation) => DraftValid(mutation[1]))

\* The form shows the errors of a draft whose title is long enough only
\* with its spaces and whose user id is not an integer; nothing was sent.
C7_Witness ==
    /\ formValues.title = <<" ", "a", " ">>
    /\ formValues.userId = Tenths(25)
    /\ errors = {"title", "body", "userId"}
    /\ ~isPending(mutation)
    /\ toast = ""

\* A step in which a pending create succeeds.
CreateSucceeded ==
    /\ toast' = "Post created successfully!"
    /\ isPending(mutation) /\ ~isPending(mutation')

\* C8: submitting a valid draft sends a create request carrying it, and
\* when the create succeeds the draft is back at title '', body '', userId 1
\* in the store and in localStorage.
C8_ValidDraftIsSentThenCleared ==
    /\ [][Submit /\ DraftValid(formValues) => mutation' = <<formValues>>]_vars
    /\ [][CreateSucceeded =>
            /\ formData' = [title |-> <<>>, body |-> <<>>, userId |-> Num(1)]
            /\ storage'.form = <<SerializeForm(formData')>>
            /\ HydrateForm(storage'.form) = formData']_vars

\* A create has succeeded and the stored draft is the default one.
C8_Witness ==
    /\ toast = "Post created successfully!"
    /\ ~isPending(mutation)
    /\ formData = DefaultFormData
    /\ HydrateForm(storage.form) = DefaultFormData

\* C9 (as stated): a reload gives back the draft and the page as they were
\* last written, with no post in edit mode and the edit buffer empty.
C9_ReloadRestoresDraftAndPage ==
    [][Reload =>
          /\ formData' = formData
          /\ currentPage' = currentPage
          /\ editingPostId' = <<>>
          /\ editFormData' = DefaultEditFormData]_vars

\* C10 (as stated): what localStorage holds for a store is at every moment
\* the value the store holds in memory.
C10_StorageEqualsMemory ==
    /\ HydrateForm(storage.form) = formData
    /\ HydratePage(storage.page) = currentPage

\* C11: the page stays within 1..TOTAL_PAGES; Previous is of no effect on
\* page 1 and Next on the last page (their buttons are disabled there);
\* elsewhere Previous takes exactly one from the page and Next adds exactly
\* one, and the stored copy follows; nothing else changes the page.
C11_NavigationIsClamped ==
    /\ [](currentPage \in Pages)
    /\ [](currentPage = 1 => ~ENABLED goToPreviousPage)
    /\ [](currentPage = TOTAL_PAGES => ~ENABLED goToNextPage)
    /\ [][goToPreviousPage =>
            /\ currentPage' = currentPage - 1
            /\ HydratePage(storage'.page) = currentPage - 1]_vars
    /\ [][goToNextPage =>
            /\ currentPage' = currentPage + 1
            /\ HydratePage(storage'.page) = currentPage + 1]_vars
    /\ [][currentPage' # currentPage
            => goToPreviousPage \/ goToNextPage]_vars

\* The list of the last page is on screen, reached with Next from the page
\* before it.
C11_Witness ==
    /\ currentPage = TOTAL_PAGES
    /\ ListShown
    /\ TOTAL_PAGES - 1 \in DOMAIN cache
    /\ HydratePage(storage.page) = TOTAL_PAGES

\* C12: the list request on the wire for ['posts', p] asks for start
\* offset (p - 1) * 5 and limit 5: offset 0 for page 1, 95 for page 20.
C12_ListRequestOffset ==
    \A p \in DOMAIN cache :
        cache[p].fetchStatus = "fetching" =>
            /\ queryFn(p).limit = 5
            /\ queryFn(p).start = 5 * p - 5
            /\ p = 1 => queryFn(p).start = 0
            /\ p = 20 => queryFn(p).start = 95

\* The request of the last page is on the wire.
C12_Witness ==
    /\ currentPage = 20
    /\ Current.fetchStatus = "fetching"
    /\ queryFn(currentPage) = [start |-> 95, limit |-> 5]

\* C13 (as stated): when a list request or a mutation request fails, no
\* request is sent again for it: the query is left without a request on the
\* wire, and the mutation is no longer pending.
C13_NoAutomaticRetry ==
    [][/\ \A k \in Pages :
            FetchFails(k) => cache'[k].fetchStatus = "idle"
       /\ CreateFails => ~isPending(mutation')
       /\ UpdateFails => ~isPending(updateMutation')
       /\ FormDeleteFails => ~isPending(formDeleteMutation')
       /\ ListDeleteFails => ~isPending(listDeleteMutation')]_vars

\* C14 (as stated): whenever a list request for the page on screen is on
\* the wire, Previous (above page 1) and Next (below the last page) can be
\* clicked.  (Only the pages within walking distance are asked for.)
C14_NavigationWhileFetching ==
    Current.fetchStatus = "fetching" =>
        /\ currentPage > 1 /\ Walked(currentPage - 1)
              => ENABLED goToPreviousPage
        /\ currentPage < TOTAL_PAGES /\ Walked(currentPage + 1)
              => ENABLED goToNextPage

\* A value within its staleTime that no mutation has invalidated.
Fresh(q) == q.status = "success" /\ ~q.isInvalidated /\ ~q.expired

\* C15: a read of a key whose query is fresh (success, not invalidated,
\* within staleTime) is served from the cache: a page change to such a
\* page sends no list request and leaves every query as it is, and a focus
\* of the window on such a page fetches nothing.
C15_FreshReadIsServedFromCache ==
    /\ [][(currentPage' # currentPage /\ currentPage' \in DOMAIN cache
             /\ Fresh(cache[currentPage']))
            => cache' = cache /\ orphans' = orphans]_vars
    /\ [](Fresh(Current) => Current.fetchStatus = "idle" /\ ~ENABLED WindowFocus)

\* Back on page 1 from page 2 with both values within their staleTime and no
\* list request on the wire.
C15_Witness ==
    /\ currentPage = 1
    /\ Fresh(Current) /\ Current.fetchStatus = "idle"
    /\ 2 \in DOMAIN cache /\ Fresh(cache[2])
    /\ HydratePage(storage.page) = 1 /\ storage.page # <<>>

\* C16: when staleTime passes for a value, its query stays in the cache
\* with the value, its status and no request started; a query past its
\* staleTime goes out on a request only when it is read (a page change to
\* it, a focus of the window on it, or a reload, which reads it into an
\* empty cache); and a value leaves the cache only
\* with a reload, or by garbage collection of a page that is not on screen.
C16_ExpiryKeepsTheValue ==
    /\ [][\A k \in Pages :
            Expire(k) =>
                /\ k \in DOMAIN cache'
                /\ cache'[k].hasData
                /\ cache'[k].status = cache[k].status
                /\ cache'[k].fetchStatus = cache[k].fetchStatus]_vars
    /\ [][\A k \in DOMAIN cache \cap DOMAIN cache' :
            (Fresh([cache[k] EXCEPT !.expired = FALSE]) /\ cache[k].expired
               /\ cache[k].fetchStatus = "idle"
               /\ cache'[k].fetchStatus = "fetching")
            => /\ k = currentPage'
               /\ goToPreviousPage \/ goToNextPage \/ WindowFocus \/ Reload]_vars
    /\ [][\A k \in DOMAIN cache :
            cache[k].hasData /\ k \notin DOMAIN cache'
            => Reload \/ (k # currentPage /\ CollectGarbage(k))]_vars

\* The value of a page that is not on screen is past its staleTime and
\* still in the cache, with no request on the wire for it.
C16_Witness ==
    \E k \in DOMAIN cache \ {currentPage} :
        /\ cache[k].status = "success"
        /\ cache[k].hasData
        /\ cache[k].expired
        /\ cache[k].fetchStatus = "idle"

\* A step in which a pending update succeeds.
UpdateSucceeded ==
    /\ toast' = "Post updated successfully!"
    /\ isPending(updateMutation) /\ ~isPending(updateMutation')

\* C17: Save on an edit with a title and a body sends an update request for
\* the post in edit mode, carrying the buffer, and changes nothing else;
\* while the update is pending the post stays in edit mode (until the
\* answer, or a reload); when the update succeeds every cached
\* page is invalidated and edit mode and buffer are cleared; and a change of
\* the post in edit mode never changes localStorage.
C17_SaveUpdatesThenInvalidates ==
    /\ [][(handleSaveEdit /\ Trim(editFormData.title) # <<>>
             /\ Trim(editFormData.body) # <<>>)
            => /\ updateMutation' =
                    <<[postId |-> editingPostId[1], data |-> editFormData]>>
               /\ cache' = cache
               /\ editingPostId' = editingPostId
               /\ editFormData' = editFormData]_vars
    /\ [][(isPending(updateMutation) /\ editingPostId' # editingPostId)
            => UpdateSucceeded \/ Reload]_vars
    /\ [][UpdateSucceeded =>
            /\ \A k \in DOMAIN cache' : cache'[k].isInvalidated
            /\ editingPostId' = <<>>
            /\ editFormData' = DefaultEditFormData]_vars
    /\ [][editingPostId' # editingPostId => storage' = storage]_vars

\* An update has succeeded: no post is in edit mode and the page on screen
\* is being refetched.
C17_Witness ==
    /\ toast = "Post updated successfully!"
    /\ editingPostId = <<>>
    /\ editFormData = DefaultEditFormData
    /\ Current.isInvalidated
    /\ Current.fetchStatus = "fetching"

\* A step in which the list request of page k ends without a value: the
\* query counts a failure or ends in error, and holds the data it held.
ListFetchFailed(k) ==
    /\ \/ cache'[k].failureCount = cache[k].failureCount + 1
       \/ cache'[k].status = "error"
    /\ cache'[k].hasData = cache[k].hasData
    /\ cache'[k].isInvalidated = cache[k].isInvalidated

\* A step in which the list request of page k ends with a value.
ListFetchSucceeded(k) ==
    /\ cache'[k].status = "success"
    /\ cache'[k].hasData
    /\ cache'[k].fetchStatus = "idle"

\* A step in which a pending create, update or delete ends.
CreateSettled == isPending(mutation) /\ ~isPending(mutation') /\ ~Reload

UpdateSettled ==
    isPending(updateMutation) /\ ~isPending(updateMutation') /\ ~Reload

DeleteSettled ==
    /\ \/ isPending(listDeleteMutation) /\ ~isPending(listDeleteMutation')
       \/ isPending(formDeleteMutation) /\ ~isPending(formDeleteMutation')
    /\ ~Reload

\* C18: whenever a remote operation (list page, create, update, delete)
\* ends, it has received a response; if the status of the response is not a
\* success status the operation ends with its error and delivers no value
\* (no list data is stored, no success handler runs, the cache is left as it
\* was), and it ends with a value only if the status is a success status.
C18_NonSuccessStatusFails ==
    [][/\ \A k \in Pages :
            (FetchSucceeds(k) \/ FetchFails(k)) =>
               /\ response' # <<>>
               /\ ~ok(response'[1]) => ListFetchFailed(k)
               /\ ListFetchSucceeded(k) => ok(response'[1])
       /\ CreateSettled =>
               /\ response' # <<>>
               /\ ~ok(response'[1]) =>
                      /\ toast' = "Error: Failed to create post"
                      /\ cache' = cache /\ formData' = formData
               /\ CreateSucceeded => ok(response'[1])
       /\ UpdateSettled =>
               /\ response' # <<>>
               /\ ~ok(response'[1]) =>
                      /\ toast' = "Error: Failed to update post"
                      /\ cache' = cache /\ editingPostId' = editingPostId
               /\ UpdateSucceeded => ok(response'[1])
       /\ DeleteSettled =>
               /\ response' # <<>>
               /\ ~ok(response'[1]) =>
                      /\ toast' = "Error: Failed to delete post"
                      /\ cache' = cache
               /\ DeleteSucceeded => ok(response'[1])]_vars

\* A create has been answered with status 500 and has failed, while the
\* list of the page on screen, answered with a success status, is held.
C18_Witness ==
    /\ response = <<500>>
    /\ toast = "Error: Failed to create post"
    /\ ~isPending(mutation)
    /\ Current.status = "success"

\* The state of the cache key ['posts', k] in the words of the
\* specification: idle (no query), pending (a request is in flight),
\* success or error.
Phase(c, k) ==
    IF k \notin DOMAIN c THEN "idle"
    ELSE IF c[k].fetchStatus = "fetching" THEN "pending"
    ELSE c[k].status

\* A key leaves idle only for pending and reaches success or error only
\* from pending; a settled key goes back to pending (refetch) or to idle
\* (garbage collection), and a pending key is never dropped.
FollowsStateMachine ==
    [][\A k \in Pages :
          Phase(cache', k) # Phase(cache, k) =>
             <<Phase(cache, k), Phase(cache', k)>> \in
                {<<"idle", "pending">>,
                 <<"pending", "success">>, <<"pending", "error">>,
                 <<"success", "pending">>, <<"error", "pending">>,
                 <<"success", "idle">>, <<"error", "idle">>}]_vars

\* Every key that is pending is later in success or error.
EveryPendingSettles ==
    \A k \in VisitedPages :
        (Phase(cache, k) = "pending")
           ~> (Phase(cache, k) \in {"success", "error"})

\* C19: each cache key follows idle -> pending -> (success | error), and
\* every key that is pending is later in success or error, when the API
\* answers every request.
C19_EveryPendingSettles ==
    FollowsStateMachine /\ EveryPendingSettles

\* C19, amended: each cache key follows idle -> pending -> (success |
\* error), and when the API answers every request, every key that is pending
\* is later in success or error unless its request is cancelled and
\* replaced again and again for ever (by the invalidations of successful
\* mutations).
C19_PendingSettlesUnlessRestarted ==
    /\ FollowsStateMachine
    /\ \A k \in VisitedPages :
          \/ []<><<Cancelled(k)>>_vars
          \/ (Phase(cache, k) = "pending")
                ~> (Phase(cache, k) \in {"success", "error"})

\* The page on screen was fetched with success, was fetched again after a
\* delete, and that request, sent again after each failure, has ended in
\* error.
C19_Witness ==
    /\ Phase(cache, currentPage) = "error"
    /\ Current.hasData
    /\ Current.isInvalidated

\* C20: whatever creates and deletes have succeeded, the page indicator
\* shows 20 pages, the page on screen is at most 20, Next does nothing on
\* page 20 and Next is available on page 19 when the list is shown.
C20_PageCountStaysTwenty ==
    /\ PageIndicator(currentPage).of = 20
    /\ currentPage <= 20
    /\ currentPage = 20 => ~ENABLED goToNextPage
    /\ (currentPage = 19 /\ ListShown) => ENABLED goToNextPage

\* A post has been deleted from page 20, the page is shown again after its
\* refetch, and a create has been sent.
C20_Witness ==
    /\ currentPage = 20
    /\ toast = "Post deleted successfully!"
    /\ ListShown /\ ~Current.isInvalidated
    /\ isPending(mutation)

\* C21: a step that changes the draft (in the store or under its storage
\* key), be it by setTitle, setBody, setUserId, setFormData or clearForm,
\* leaves the page number and what is stored under the page's key as they
\* were; a step that changes the page number (in the store or under its
\* storage key), by setCurrentPage or resetPage, leaves the draft and what
\* is stored under the draft's key as they were.
C21_SlicesAreIndependent ==
    /\ [][(formData' # formData \/ storage'.form # storage.form)
            => (currentPage' = currentPage /\ storage'.page = storage.page)]_vars
    /\ [][(currentPage' # currentPage \/ storage'.page # storage.page)
            => (formData' = formData /\ storage'.form = storage.form)]_vars

\* On page 2, stored, a create has succeeded and has cleared the draft.
C21_Witness ==
    /\ toast = "Post created successfully!"
    /\ formData = DefaultFormData
    /\ currentPage = 2
    /\ storage.page = <<SerializePage(2)>>

\* Both slices hold their defaults, in the stores and in localStorage.
Cleared ==
    /\ formData = DefaultFormData
    /\ storage.form = <<SerializeForm(DefaultFormData)>>
    /\ currentPage = DefaultPage
    /\ storage.page = <<SerializePage(DefaultPage)>>

\* What the application holds for the two slices after a fresh start.
FreshSlices ==
    /\ formData = [title |-> <<>>, body |-> <<>>, userId |-> Num(1)]
    /\ formValues = [title |-> <<>>, body |-> <<>>, userId |-> Num(1)]
    /\ currentPage = 1

\* C22: a start over empty storage gives the draft title '', body '',
\* userId 1 and page 1, and the page is 1 whenever nothing is stored under
\* its key; clearForm (called on its own or by a successful create) leaves
\* exactly the default draft, in the store and in localStorage, and
\* resetPage leaves exactly page 1, from any state; a clear of a cleared
\* slice changes nothing; and a reload after both slices were cleared gives
\* the slices of a fresh start.
C22_ClearGivesTheDefaults ==
    /\ [](FirstVisit => FreshSlices)
    /\ [](storage.page = <<>> => currentPage = 1)
    /\ [][(StoreClearForm \/ CreateSucceeded)
            => /\ formData' = [title |-> <<>>, body |-> <<>>, userId |-> Num(1)]
               /\ HydrateForm(storage'.form) = formData']_vars
    /\ [][StoreResetPage
            => (currentPage' = 1 /\ HydratePage(storage'.page) = 1)]_vars
    /\ [][((StoreClearForm \/ StoreResetPage) /\ Cleared)
            => (formData' = formData /\ currentPage' = currentPage
                  /\ storage' = storage)]_vars
    /\ [][(Reload /\ Cleared) => FreshSlices']_vars

\* resetPage was called on page 2 while its list was loading (Previous is
\* not on screen then), after a create had cleared the draft.
C22_Witness ==
    /\ Cleared
    /\ toast = "Post created successfully!"
    /\ 2 \in DOMAIN cache
    /\ isLoading(cache[2])

\* The texts of the draft stored in localStorage.
StoredDraft == storage.form[1].state.formData

\* C23: whatever draft the store holds, a change of the title field (setTitle)
\* sets the title and leaves body and userId as they were, a change of the
\* body field (setBody) sets the body and leaves title and userId, and a
\* change of the userId field (setUserId) sets the userId and leaves title
\* and body, in the store; and the stored texts follow the store.
C23_SettersKeepTheOtherFields ==
    /\ [][\A t \in {<<>>, ValidTitle} :
            TypeTitle(t) =>
               /\ formData' = [title |-> t, body |-> formData.body,
                               userId |-> formData.userId]
               /\ StoredDraft'.title = t
               /\ StoredDraft'.body = formData.body]_vars
    /\ [][\A b \in {<<>>, ValidBody} :
            TypeBody(b) =>
               /\ formData' = [title |-> formData.title, body |-> b,
                               userId |-> formData.userId]
               /\ StoredDraft'.title = formData.title
               /\ StoredDraft'.body = b]_vars
    /\ [][\A raw \in {RawEmpty, RawNumber(20)} :
            TypeUserId(raw) =>
               /\ formData' = [title |-> formData.title,
                               body |-> formData.body,
                               userId |-> ValueAsNumber(raw)]
               /\ StoredDraft'.title = formData.title
               /\ StoredDraft'.body = formData.body]_vars

\* A title and a body were typed and the user id was emptied, on page 2.
C23_Witness ==
    /\ formData = [title |-> ValidTitle, body |-> ValidBody, userId |-> NaN]
    /\ formValues = formData
    /\ currentPage = 2

\* C24: whatever Previous, Next, reloads, creates, updates and deletes have
\* happened, the page in the store is a whole number from 1 to 20, and so is
\* the page stored in localStorage once one is stored.
C24_PageStaysInRange ==
    /\ currentPage \in 1..20
    /\ storage.page # <<>> => storage.page[1].state.currentPage \in 1..20

\* On page 20, reached by Next from page 19, after an update has succeeded.
C24_Witness ==
    /\ currentPage = 20
    /\ storage.page = <<SerializePage(20)>>
    /\ 19 \in DOMAIN cache
    /\ toast = "Post updated successfully!"

\* The text is empty or made of spaces only.
Blank(text) == \A i \in 1..Len(text) : text[i] = " "

\* C25: Save on an edit whose title or body is empty or all spaces sends no
\* update, leaves the cache, the post in edit mode and the edit buffer as
\* they were, and changes nothing but the notification, which says that
\* title and body are required.
C25_BlankEditIsNotSent ==
    [][(handleSaveEdit
          /\ (Blank(editFormData.title) \/ Blank(editFormData.body)))
         => /\ ~isPending(updateMutation')
            /\ cache' = cache /\ orphans' = orphans
            /\ editingPostId' = editingPostId
            /\ editFormData' = editFormData
            /\ toast' = "Title and body are required"
            /\ UNCHANGED <<response, storeVars, formVars, mutation,
                           formDeleteMutation, listDeleteMutation>>]_vars

\* Save was pressed on an edit whose title is one space: the post is still
\* in edit mode, with that title, and no update is pending.
C25_Witness ==
    /\ toast = "Title and body are required"
    /\ editingPostId # <<>>
    /\ editFormData.title = <<" ">>
    /\ editFormData.body # <<>>
    /\ ~isPending(updateMutation)

\* A payload as the specification wants it: a title, a body, and a user id
\* that is a whole number from 1 to 10.
PayloadValid(d) ==
    /\ d.title # <<>>
    /\ d.body # <<>>
    /\ IsNumber(d.userId)
    /\ d.userId[2] % 10 = 0
    /\ d.userId[2] >= 10 /\ d.userId[2] <= 100

\* C26: every create request and every update request on its way to the API
\* carries a non-empty title, a non-empty body and a user id that is a whole
\* number from 1 to 10.
C26_EveryPayloadIsValid ==
    /\ isPending(mutation) => PayloadValid(mutation[1])
    /\ isPending(updateMutation) => PayloadValid(updateMutation[1].data)

\* C27: while a create is pending Submit cannot be pressed, so a pending
\* create is never replaced by another one; while an update or a delete
\* issued from the list is pending no shown post offers Edit or Delete, and
\* while an update is pending Save and Cancel cannot be pressed, so a pending
\* list delete or update is never replaced by another one.
C27_PendingDisablesTheButtons ==
    /\ [](isPending(mutation) => ~ENABLED Submit)
    /\ [](isPending(updateMutation) \/ isPending(listDeleteMutation)
            => \A post \in PostsOnPage(currentPage) :
                   /\ ~ENABLED handleEdit(post)
                   /\ ~ENABLED ListHandleDelete(post))
    /\ [](isPending(updateMutation)
            => ~ENABLED handleSaveEdit /\ ~ENABLED handleCancelEdit)
    /\ [][/\ isPending(mutation)
              => mutation' = mutation \/ ~isPending(mutation')
          /\ isPending(listDeleteMutation)
              => listDeleteMutation' = listDeleteMutation
                    \/ ~isPending(listDeleteMutation')
          /\ isPending(updateMutation)
              => updateMutation' = updateMutation
                    \/ ~isPending(updateMutation')]_vars

\* A create and a delete of the last post of the page are pending while the
\* first post of the page is in edit mode.
C27_Witness ==
    /\ isPending(mutation)
    /\ ListShown
    /\ listDeleteMutation = <<currentPage * POSTS_PER_PAGE>>
    /\ editingPostId = <<(currentPage - 1) * POSTS_PER_PAGE + 1>>

\* C28: every response is stored under the key of the page it was requested
\* for, so a stored entry holds the posts of its own page whatever page the
\* user has moved to since; a step that changes the data of an entry stores
\* that page's posts, and the list on screen is the data of the entry of
\* the current page.
C28_ResponseStoredUnderItsOwnKey ==
    /\ [](\A q \in DOMAIN cache :
             cache[q].data = IF cache[q].hasData THEN PostsOnPage(q) ELSE {})
    /\ [](ListShown => ShownPosts = PostsOnPage(currentPage))
    /\ [][\A q \in DOMAIN cache \cap DOMAIN cache' :
             cache'[q].data # cache[q].data
                => /\ cache[q].fetchStatus = "fetching"
                   /\ cache'[q].data = PostsOnPage(q)]_vars

\* The user pressed Next while the first page was being refetched, and the
\* response for the first page has arrived while the second page, never
\* loaded before, is still loading.
C28_Witness ==
    /\ currentPage = DefaultPage + 1
    /\ isLoading(cache[currentPage])
    /\ ~cache[currentPage].hasData
    /\ DefaultPage \in DOMAIN cache
    /\ cache[DefaultPage].status = "success"
    /\ cache[DefaultPage].fetchStatus = "idle"
    /\ cache[DefaultPage].data = PostsOnPage(DefaultPage)

\* C29: when a create succeeds after the draft was edited during its
\* flight, the form, the store and localStorage hold the default draft,
\* whatever was typed meanwhile; in every other step a field of the stored
\* draft changes only to the value the form holds for it, so nothing typed
\* before the success comes back without being typed again.
C29_FlightEditsAreDiscarded ==
    /\ [][CreateSucceeded /\ formValues # mutation[1]
             => /\ formValues' = DefaultFormData
                /\ formData' = DefaultFormData
                /\ storage'.form # <<>>
                /\ HydrateForm(storage'.form) = DefaultFormData]_vars
    /\ [][~CreateSucceeded
             => \A f \in {"title", "body", "userId"} :
                   formData'[f] # formData[f] => formData'[f] = formValues'[f]]_vars

\* A create has succeeded, which here happens only after an edit during its
\* flight; the form is empty and the stored draft is the default one.
C29_Witness ==
    /\ toast = "Post created successfully!"
    /\ response = <<200>>
    /\ formValues = DefaultFormData
    /\ errors = {}
    /\ formData = DefaultFormData
    /\ storage.form = <<SerializeForm(DefaultFormData)>>

=============================================================================
